---- MODULE Spec2Model ----
(***************************************************************************)
(* Model of the two command-line utilities of the repository:              *)
(*   scripts/create_issues_from_docs.py  (front-matter parser, duplicate   *)
(*                                        check, issue creation loop)      *)
(*   scripts/convert_md_to_docx.py       (Markdown -> docx batch driver)   *)
(*                                                                         *)
(* A text is a sequence of one-character strings.                          *)
(***************************************************************************)
EXTENDS Integers, Sequences, FiniteSets, Bags, TLC

(***************************************************************************)
(* Python string primitives used by the scripts                            *)
(***************************************************************************)

\* str.strip() with no argument removes these characters (of the model's alphabet)
Whitespace == {" ", "\n", "\t"}

RECURSIVE LStrip(_)
LStrip(s) ==
    IF s # <<>> /\ Head(s) \in Whitespace THEN LStrip(Tail(s)) ELSE s

RECURSIVE RStrip(_)
RStrip(s) ==
    IF s # <<>> /\ s[Len(s)] \in Whitespace
    THEN RStrip(SubSeq(s, 1, Len(s) - 1))
    ELSE s

\* s.strip()
Strip(s) == RStrip(LStrip(s))

\* s.startswith(p)
StartsWith(s, p) == Len(s) >= Len(p) /\ SubSeq(s, 1, Len(p)) = p

\* s.endswith(p)
EndsWith(s, p) == Len(s) >= Len(p) /\ SubSeq(s, Len(s) - Len(p) + 1, Len(s)) = p

\* s[1:-1]
Inner(s) == IF Len(s) < 2 THEN <<>> ELSE SubSeq(s, 2, Len(s) - 1)

\* 1-based index of the first occurrence of p in s at or after position from, 0 if none
RECURSIVE Find(_, _, _)
Find(s, p, from) ==
    IF from + Len(p) - 1 > Len(s) THEN 0
    ELSE IF SubSeq(s, from, from + Len(p) - 1) = p THEN from
    ELSE Find(s, p, from + 1)

\* p in s
Contains(s, p) == Find(s, p, 1) # 0

\* s.split(c)
RECURSIVE Split(_, _)
Split(s, c) ==
    LET k == Find(s, <<c>>, 1)
    IN  IF k = 0 THEN <<s>>
        ELSE <<SubSeq(s, 1, k - 1)>> \o Split(SubSeq(s, k + 1, Len(s)), c)

\* s.split(c, 1)
SplitOnce(s, c) ==
    LET k == Find(s, <<c>>, 1)
    IN  IF k = 0 THEN <<s>>
        ELSE <<SubSeq(s, 1, k - 1), SubSeq(s, k + 1, Len(s))>>

(***************************************************************************)
(* parse_frontmatter                                                       *)
(***************************************************************************)

Marker == <<"-", "-", "-">>
NL == <<"\n">>

\* the condition of lines 46-47 and 53-54: the text starts and ends with the
\* same quote character
Quoted(s) ==
    \/ StartsWith(s, <<"\"">>) /\ EndsWith(s, <<"\"">>)
    \/ StartsWith(s, <<"'">>) /\ EndsWith(s, <<"'">>)

\* lines 46-48, 53-55
StripQuotes(s) == IF Quoted(s) THEN Inner(s) ELSE s

\* lines 38-49: the items of a bracketed value
ParseItems(inner) ==
    IF inner = <<>> THEN <<>>
    ELSE LET parts == Split(inner, ",")
         IN  [k \in 1..Len(parts) |-> StripQuotes(Strip(parts[k]))]

\* lines 36-56: a metadata value is a list of texts or one text
ParseValue(value) ==
    IF StartsWith(value, <<"[">>) /\ EndsWith(value, <<"]">>)
    THEN [kind |-> "list", val |-> ParseItems(Inner(value))]
    ELSE [kind |-> "str", val |-> StripQuotes(value)]

\* the empty dict
EmptyMeta == [k \in {} |-> 0]

\* metadata[key] = v
Put(m, key, v) == [k \in (DOMAIN m) \cup {key} |-> IF k = key THEN v ELSE m[k]]

\* lines 27-56: the effect of one line of the block on the mapping
ParseLine(m, rawline) ==
    LET line == Strip(rawline)
    IN  IF line = <<>> \/ ~Contains(line, <<":">>) THEN m
        ELSE LET kv == SplitOnce(line, ":")
             IN  Put(m, Strip(kv[1]), ParseValue(Strip(kv[2])))

\* lines 25-56: the loop over the lines of the block
RECURSIVE ParseLines(_, _)
ParseLines(m, lines) ==
    IF lines = <<>> THEN m
    ELSE ParseLines(ParseLine(m, Head(lines)), Tail(lines))

\* line 17: position of the "\n---\n" that closes the block, 0 when
\* re.match(r'^---\n(.*?)\n---\n(.*)', content, re.DOTALL) fails
MatchClose(content) ==
    IF StartsWith(content, Marker \o NL)
    THEN Find(content, NL \o Marker \o NL, 5)
    ELSE 0

\* lines 11-58
parse_frontmatter(content) ==
    LET k == MatchClose(content)
    IN  IF k = 0 THEN [metadata |-> EmptyMeta, body |-> content]
        ELSE [metadata |-> ParseLines(EmptyMeta, Split(SubSeq(content, 5, k - 1), "\n")),
              body |-> Strip(SubSeq(content, k + 5, Len(content)))]

(***************************************************************************)
(* Inputs of the parser                                                    *)
(***************************************************************************)

\* longest value enumerated character by character
MaxValLen == 4
\* largest number of pieces a document text is assembled from
MaxChunks == 5

ValueAlphabet == {"[", "]", "\"", "'", ",", " ", "a"}

\* all texts over the alphabet a of length at most n
TextsUpTo(a, n) == UNION {[1..m -> a] : m \in 0..n}

\* the values of the documented examples
ExampleValues ==
    { <<"[", "\"", "a", "\"", ",", " ", "\"", "b", "\"", ",", " ", "\"", "c", "\"", "]">>,
      <<"\"", "h", "e", "l", "l", "o", "\"">>,
      <<"'", "i", "t", "'", "'", "s", "'">>,
      <<"[", "a">> }

ValueInputs == TextsUpTo(ValueAlphabet, MaxValLen) \cup ExampleValues

\* a document whose block is the single line "k:<v>"
ValueDoc(v) == Marker \o NL \o <<"k", ":">> \o v \o NL \o Marker \o NL

Chunks == { Marker, NL, <<"k", ":", "a">>, <<" ">>, <<"x">> }

RECURSIVE Flatten(_)
Flatten(ss) == IF ss = <<>> THEN <<>> ELSE Head(ss) \o Flatten(Tail(ss))

ChunkDocs == { Flatten(cs) : cs \in TextsUpTo(Chunks, MaxChunks) }

\* a block in which the key k occurs twice
DuplicateKeyDoc ==
    Marker \o NL \o <<"k", ":", " ", "A">> \o NL \o <<"k", ":", " ", "B">> \o NL \o Marker \o NL

ParseInputs == ChunkDocs \cup { ValueDoc(v) : v \in ValueInputs } \cup { DuplicateKeyDoc }

(***************************************************************************)
(* create_issues_from_docs.py: configuration, tracker, issue_exists        *)
(***************************************************************************)

BACKLOG_FILE == "backlog.md"

\* the value of --limit in the query of issue_exists
SearchLimit == 100

TitleKey == <<"t", "i", "t", "l", "e">>
LabelsKey == <<"l", "a", "b", "e", "l", "s">>

\* metadata.get('labels', [])
DefaultLabels == [kind |-> "list", val |-> <<>>]

\* repr() of a text without quotes or backslashes
ReprStr(s) == <<"'">> \o s \o <<"'">>

RECURSIVE ReprItems(_)
ReprItems(items) ==
    IF items = <<>> THEN <<>>
    ELSE IF Len(items) = 1 THEN ReprStr(items[1])
    ELSE ReprStr(items[1]) \o <<",", " ">> \o ReprItems(Tail(items))

\* the text f"{title}" puts into the search argument: a string is itself, a
\* list is its repr
FormatTitle(title) ==
    IF title.kind = "str" THEN title.val
    ELSE <<"[">> \o ReprItems(title.val) \o <<"]">>

\* the issues of the tracker a search for "<term> in:title" selects: those
\* whose title contains the term
Matching(tr, term) ==
    LET sel == {t \in BagToSet(tr) : Contains(t, term)}
    IN  [t \in sel |-> tr[t]]

Min(a, b) == IF a < b THEN a ELSE b

\* the pages "gh issue list --search ... --state all --limit 100" can print:
\* at most SearchLimit of the selected issues, which ones being up to the
\* tracker's ordering
Pages(tr, title) ==
    LET m == Matching(tr, FormatTitle(title))
        n == Min(BagCardinality(m), SearchLimit)
    IN  {b \in SubBag(m) : BagCardinality(b) = n}

\* the exceptions the query can raise: gh missing, non-zero exit, output that
\* is not the expected JSON
QueryErrors == {"FileNotFoundError", "CalledProcessError", "JSONDecodeError"}

\* what running the query of lines 74-79 can give
QueryOutcomes(tr, title) ==
    {[kind |-> "ok", issues |-> b] : b \in Pages(tr, title)}
    \cup {[kind |-> e, issues |-> EmptyBag] : e \in QueryErrors}

\* issue_exists answering "found" when the query fails
issue_exists_FailsClosed(title, q) ==
    IF q.kind = "ok"
    THEN [found |-> title.kind = "str" /\ BagIn(title.val, q.issues), warning |-> "none"]
    ELSE [found |-> TRUE, warning |-> q.kind]

\* lines 67-86: the returned boolean and the warning printed, if any
issue_exists(title, q) ==
    IF q.kind = "ok"
    THEN [found |-> title.kind = "str" /\ BagIn(title.val, q.issues), warning |-> "none"]
    ELSE [found |-> FALSE, warning |-> q.kind]

\* lines 151-152: "for label in labels" walks the items of a list and the
\* characters of a string
LabelArgs(labels) ==
    IF labels.kind = "list" THEN labels.val
    ELSE [k \in 1..Len(labels.val) |-> <<labels.val[k]>>]

\* lines 140-152: the command line of the creation call
CreateCmd(metadata, body) ==
    [title |-> metadata[TitleKey],
     body |-> body,
     labels |-> LabelArgs(IF LabelsKey \in DOMAIN metadata
                          THEN metadata[LabelsKey] ELSE DefaultLabels)]

(***************************************************************************)
(* Inputs of the issue creator                                             *)
(***************************************************************************)

\* number of names the scanned directory can hold
MaxFiles == 3

\* the sorted names of the files the directory can hold
FileName(k) ==
    CASE k = 1 -> "a.md"
      [] k = 2 -> "backlog.md"
      [] k = 3 -> "c.md"
      [] k = 4 -> "d.md"
      [] OTHER -> "e.md"

FrontMatter(block) == Marker \o NL \o block \o NL \o Marker \o NL

\* title: "A" / labels: ["b", "u"] / body with surrounding whitespace
DocQuoted ==
    FrontMatter(TitleKey \o <<":", " ", "\"", "A", "\"">> \o NL
                \o LabelsKey \o <<":", " ", "[", "\"", "b", "\"", ",", " ", "\"", "u", "\"", "]">>)
    \o <<"\n", "x", " ", "y", "\n">>
\* title: A, no labels
DocPlain == FrontMatter(TitleKey \o <<":", " ", "A">>) \o <<"z">>
\* title: A / labels: bu
DocScalarLabels ==
    FrontMatter(TitleKey \o <<":", "A">> \o NL \o LabelsKey \o <<":", " ", "b", "u">>)
\* title: [A]
DocListTitle == FrontMatter(TitleKey \o <<":", " ", "[", "A", "]">>) \o <<"x">>
\* labels only
DocNoTitle == FrontMatter(LabelsKey \o <<":", " ", "[", "b", "]">>) \o <<"x">>
\* no front matter
DocNoFrontMatter == <<"x", "\n">>

DocTexts == {DocQuoted, DocPlain, DocScalarLabels, DocListTitle, DocNoTitle, DocNoFrontMatter}

\* what a file of the directory can be: readable with one of the texts, or
\* not readable
FileStates ==
    [readable : {TRUE}, content : DocTexts]
    \cup {[readable |-> FALSE, content |-> DocQuoted]}

\* the backlog file, when present, is a readable document with a title
Directories ==
    {d \in UNION {[S -> FileStates] : S \in SUBSET (1..MaxFiles)} :
        \A k \in DOMAIN d :
            FileName(k) = BACKLOG_FILE => d[k] = [readable |-> TRUE, content |-> DocQuoted]}

RECURSIVE Ascending(_)
Ascending(S) ==
    IF S = {} THEN <<>>
    ELSE LET m == CHOOSE x \in S : \A y \in S : x <= y
         IN  <<m>> \o Ascending(S \ {m})

\* line 115: sorted(glob.glob(os.path.join(target_dir, "*.md")))
Listing(d) ==
    LET ks == Ascending(DOMAIN d)
    IN  [j \in 1..Len(ks) |->
            [filename |-> FileName(ks[j]),
             readable |-> d[ks[j]].readable,
             content |-> d[ks[j]].content]]

TitleA == <<"A">>
\* titles of other issues that contain the text "A"
TitleAx == <<"A", "x">>

\* the issues the tracker holds when the run starts
Trackers ==
    { EmptyBag,
      SetToBag({TitleA}),
      (TitleA :> 1) @@ (TitleAx :> SearchLimit) }

(***************************************************************************)
(* convert_md_to_docx.py: path helpers and inputs                          *)
(***************************************************************************)

\* str.lower() on the characters of the model's file names
LowerChar(c) ==
    CASE c = "C" -> "c"
      [] c = "M" -> "m"
      [] c = "D" -> "d"
      [] OTHER -> c

Lower(s) == [k \in 1..Len(s) |-> LowerChar(s[k])]

DotMd == <<".", "m", "d">>

\* line 23: input_path.lower().endswith('.md')
IsMarkdown(name) == EndsWith(Lower(name), DotMd)

\* line 63: glob "*.md" compares case-sensitively and leaves out names that
\* start with a dot
GlobMatches(name) == EndsWith(name, DotMd) /\ ~StartsWith(name, <<".">>)

RECURSIVE LastDot(_)
LastDot(name) ==
    IF name = <<>> THEN 0
    ELSE IF name[Len(name)] = "." THEN Len(name)
    ELSE LastDot(SubSeq(name, 1, Len(name) - 1))

RECURSIVE LeadingDots(_)
LeadingDots(name) ==
    IF name # <<>> /\ Head(name) = "." THEN 1 + LeadingDots(Tail(name)) ELSE 0

\* line 30: os.path.splitext(filename)[0]
filename_no_ext(name) ==
    IF LastDot(name) > LeadingDots(name) THEN SubSeq(name, 1, LastDot(name) - 1) ELSE name

\* line 37: the name of the output inside the 'converted' subdirectory
OutputName(name) == filename_no_ext(name) \o <<".", "d", "o", "c", "x">>

\* the names a directory can hold
FileNames ==
    { <<"a", ".", "m", "d">>,
      <<"z", ".", "m", "d">>,
      <<"C", ".", "M", "D">>,
      <<"b", ".", "t", "x", "t">>,
      <<".", "h", ".", "m", "d">> }

\* largest number of PATH arguments
MaxPaths == 2

\* a PATH argument: the directory itself or a name inside it
DirArg == [dir |-> TRUE, name |-> <<>>]
FileArg(n) == [dir |-> FALSE, name |-> n]
PathArgs == {DirArg} \cup {FileArg(n) : n \in FileNames}

\* nargs='+': at least one path
ArgLists == UNION {[1..m -> PathArgs] : m \in 1..MaxPaths}

\* the orders glob.glob can list a set of names in
RECURSIVE Orders(_)
Orders(S) ==
    IF S = {} THEN {<<>>}
    ELSE UNION {{<<x>> \o r : r \in Orders(S \ {x})} : x \in S}

\* what the external converter can do: succeed, exit non-zero, fail to start
PandocOutcomes == {"ok", "CalledProcessError", "OSError"}

(***************************************************************************)
(* State                                                                   *)
(***************************************************************************)
VARIABLES
    content,    \* parser run: the argument of parse_frontmatter
    result,     \* parser run: what parse_frontmatter returned
    pc,         \* position of main(); "exit" after sys.exit(1), "raised" after an
                \* uncaught exception (traceback on standard error)
    exitCode,   \* exit status of the process, -1 while it runs
    out,        \* the lines printed on standard output so far
    files,      \* issue creator: the sorted listing of the directory
    idx,        \* issue creator: position of the loop in files
    count,      \* issue creator: created issues
    skipped,    \* issue creator: skipped existing issues
    tracker,    \* issue creator: bag of the titles of the tracker's issues
    cmds,       \* issue creator: the creation calls made, with their outcome
    trace,      \* issue creator: one record per loop iteration
    paths,      \* converter: args.paths
    pidx,       \* converter: position of the loop of main in paths
    dirFiles,   \* converter: the names in the directory
    converted,  \* converter: the 'converted' entry: "absent", "dir", "blocked"
    md_files,   \* converter: what is left of the glob listing being walked
    runs        \* converter: the invocations of the external converter

vars == <<content, result, pc, exitCode, out, files, idx, count, skipped,
          tracker, cmds, trace, paths, pidx, dirFiles, converted, md_files, runs>>

NoResult == [returned |-> FALSE, metadata |-> EmptyMeta, body |-> <<>>]

parserVars == <<content, result>>
issueVars == <<files, idx, count, skipped, tracker, cmds, trace>>
convVars == <<paths, pidx, dirFiles, converted, md_files, runs>>

\* the variables of a program that is not the one running
ParserIdle == content = <<>> /\ result = NoResult
IssueIdle ==
    /\ files = <<>>
    /\ idx = 0
    /\ count = 0
    /\ skipped = 0
    /\ tracker = EmptyBag
    /\ cmds = <<>>
    /\ trace = <<>>
ConvIdle ==
    /\ paths = <<>>
    /\ pidx = 0
    /\ dirFiles = {}
    /\ converted = "absent"
    /\ md_files = <<>>
    /\ runs = <<>>

\* one printed line: its kind, the file it is about, its detail
Line(text, file, arg) == [text |-> text, file |-> file, arg |-> arg]

(***************************************************************************)
(* Parser run: one call of parse_frontmatter on an arbitrary text          *)
(***************************************************************************)
InitParse ==
    /\ content \in ParseInputs
    /\ result = NoResult
    /\ pc = "parse"
    /\ exitCode = -1
    /\ out = <<>>
    /\ IssueIdle
    /\ ConvIdle

Parse ==
    /\ pc = "parse"
    /\ ~result.returned
    /\ result' = [returned |-> TRUE,
                  metadata |-> parse_frontmatter(content).metadata,
                  body |-> parse_frontmatter(content).body]
    /\ UNCHANGED <<content, pc, exitCode, out>>
    /\ UNCHANGED issueVars
    /\ UNCHANGED convVars

NextParse == Parse

SpecParse == InitParse /\ [][NextParse]_vars

(***************************************************************************)
(* create_issues_from_docs.py: main                                        *)
(***************************************************************************)
Init ==
    /\ ParserIdle
    /\ ConvIdle
    /\ pc = "main"
    /\ exitCode = -1
    /\ out = <<>>
    /\ files \in {Listing(d) : d \in Directories}
    /\ idx = 0
    /\ count = 0
    /\ skipped = 0
    /\ tracker \in Trackers
    /\ cmds = <<>>
    /\ trace = <<>>

\* lines 60-65, 90-93: 'gh --version' raises FileNotFoundError or
\* CalledProcessError, check_gh_installed answers False
GhMissing ==
    /\ pc = "main"
    /\ out' = out \o <<Line("Error: gh not installed", 0, "")>>
    /\ exitCode' = 1
    /\ pc' = "exit"
    /\ UNCHANGED parserVars
    /\ UNCHANGED convVars
    /\ UNCHANGED issueVars

\* lines 60-62, 90: 'gh --version' cannot be started for another reason
\* (PermissionError, exec format error: an OSError line 64 does not catch);
\* nothing is printed, the traceback ends the process
GhRaises ==
    /\ pc = "main"
    /\ pc' = "raised"
    /\ exitCode' = 1
    /\ UNCHANGED out
    /\ UNCHANGED parserVars
    /\ UNCHANGED convVars
    /\ UNCHANGED issueVars

\* lines 90-111: gh is installed, docs/product is found neither under the
\* workspace root nor under the working directory
DirMissing ==
    /\ pc = "main"
    /\ out' = out \o <<Line("Error: Could not find directory", 0, "")>>
    /\ exitCode' = 1
    /\ pc' = "exit"
    /\ UNCHANGED parserVars
    /\ UNCHANGED convVars
    /\ UNCHANGED issueVars

\* lines 90-118: gh is installed and the directory is found
Scan ==
    /\ pc = "main"
    /\ out' = out \o <<Line("Scanning", 0, "")>>
    /\ idx' = 1
    /\ pc' = "loop"
    /\ UNCHANGED parserVars
    /\ UNCHANGED convVars
    /\ UNCHANGED <<exitCode, files, count, skipped, tracker, cmds, trace>>

InLoop == pc = "loop" /\ idx \in 1..Len(files)

\* the record of one iteration: the file, whether the tracker held an issue
\* with the file's title when the iteration began, how the query ended, what
\* issue_exists answered and printed, the skipped count at the beginning
Iter(existed, q, ex) ==
    [file |-> idx,
     existed |-> existed,
     query |-> q,
     found |-> ex.found,
     warning |-> ex.warning,
     skipped0 |-> skipped]

NoQuery == [found |-> FALSE, warning |-> "none"]

\* lines 121-123
SkipBacklog ==
    /\ InLoop
    /\ files[idx].filename = BACKLOG_FILE
    /\ idx' = idx + 1
    /\ trace' = Append(trace, Iter(FALSE, "none", NoQuery))
    /\ UNCHANGED parserVars
    /\ UNCHANGED convVars
    /\ UNCHANGED <<pc, exitCode, out, files, count, skipped, tracker, cmds>>

\* lines 121-132: the file cannot be read
ReadFails ==
    /\ InLoop
    /\ files[idx].filename # BACKLOG_FILE
    /\ ~files[idx].readable
    /\ out' = out \o <<Line("Processing", idx, ""), Line("Error reading file", idx, "")>>
    /\ idx' = idx + 1
    /\ trace' = Append(trace, Iter(FALSE, "none", NoQuery))
    /\ UNCHANGED parserVars
    /\ UNCHANGED convVars
    /\ UNCHANGED <<pc, exitCode, files, count, skipped, tracker, cmds>>

Readable == InLoop /\ files[idx].filename # BACKLOG_FILE /\ files[idx].readable

\* line 136, on the metadata line 134 returned
HasTitle(metadata) == metadata # EmptyMeta /\ TitleKey \in DOMAIN metadata

\* the tracker holds an issue with this title
Exists(title) == title.kind = "str" /\ BagIn(title.val, tracker)

\* lines 121-138
NoTitle ==
    /\ Readable
    /\ ~HasTitle(parse_frontmatter(files[idx].content).metadata)
    /\ out' = out \o <<Line("Processing", idx, ""), Line("Skipping: No 'title' found", idx, "")>>
    /\ idx' = idx + 1
    /\ trace' = Append(trace, Iter(FALSE, "none", NoQuery))
    /\ UNCHANGED parserVars
    /\ UNCHANGED convVars
    /\ UNCHANGED <<pc, exitCode, files, count, skipped, tracker, cmds>>

\* the lines issue_exists prints
WarningLines(ex) ==
    IF ex.warning = "none" THEN <<>>
    ELSE <<Line("Warning: Could not check if issue exists", idx, ex.warning)>>

\* lines 121-147: issue_exists answers True
DuplicateSkip ==
    /\ Readable
    /\ LET parsed == parse_frontmatter(files[idx].content)
           title == parsed.metadata[TitleKey]
       IN  /\ HasTitle(parsed.metadata)
           /\ \E q \in QueryOutcomes(tracker, title) :
                 LET ex == issue_exists(title, q)
                 IN  /\ ex.found
                     /\ out' = out \o <<Line("Processing", idx, "")>> \o WarningLines(ex)
                                   \o <<Line("Skipping: Issue already exists", idx, "")>>
                     /\ trace' = Append(trace, Iter(Exists(title), q.kind, ex))
    /\ skipped' = skipped + 1
    /\ idx' = idx + 1
    /\ UNCHANGED parserVars
    /\ UNCHANGED convVars
    /\ UNCHANGED <<pc, exitCode, files, count, tracker, cmds>>

\* the creation call of one iteration and how it ended
Call(parsed, outcome) ==
    [file |-> idx, cmd |-> CreateCmd(parsed.metadata, parsed.body), outcome |-> outcome]

\* lines 121-159: issue_exists answers False, the creation call returns or
\* raises CalledProcessError
CreateIssue ==
    /\ Readable
    /\ LET parsed == parse_frontmatter(files[idx].content)
           title == parsed.metadata[TitleKey]
       IN  /\ HasTitle(parsed.metadata)
           /\ title.kind = "str"
           /\ \E q \in QueryOutcomes(tracker, title), o \in {"ok", "CalledProcessError"} :
                 LET ex == issue_exists(title, q)
                 IN  /\ ~ex.found
                     /\ cmds' = Append(cmds, Call(parsed, o))
                     /\ trace' = Append(trace, Iter(Exists(title), q.kind, ex))
                     /\ IF o = "ok"
                        THEN /\ out' = out \o <<Line("Processing", idx, "")>> \o WarningLines(ex)
                                           \o <<Line("Success: Created issue", idx, "")>>
                             /\ count' = count + 1
                             /\ tracker' = tracker (+) SetToBag({title.val})
                        ELSE /\ out' = out \o <<Line("Processing", idx, "")>> \o WarningLines(ex)
                                           \o <<Line("Error creating issue", idx, "")>>
                             /\ UNCHANGED <<count, tracker>>
    /\ idx' = idx + 1
    /\ UNCHANGED parserVars
    /\ UNCHANGED convVars
    /\ UNCHANGED <<pc, exitCode, files, skipped>>

\* the exceptions subprocess.run raises at line 155 other than
\* CalledProcessError: a list among the arguments is a TypeError, a command
\* that cannot be started is an OSError
CreateExceptions(title) == IF title.kind = "list" THEN {"TypeError"} ELSE {"OSError"}

\* lines 121-155: issue_exists answers False and the creation call raises an
\* exception line 158 does not catch; the traceback ends the process
CreateRaises ==
    /\ Readable
    /\ LET parsed == parse_frontmatter(files[idx].content)
           title == parsed.metadata[TitleKey]
       IN  /\ HasTitle(parsed.metadata)
           /\ \E q \in QueryOutcomes(tracker, title), o \in CreateExceptions(title) :
                 LET ex == issue_exists(title, q)
                 IN  /\ ~ex.found
                     /\ cmds' = Append(cmds, Call(parsed, o))
                     /\ trace' = Append(trace, Iter(Exists(title), q.kind, ex))
                     /\ out' = out \o <<Line("Processing", idx, "")>> \o WarningLines(ex)
    /\ pc' = "raised"
    /\ exitCode' = 1
    /\ UNCHANGED parserVars
    /\ UNCHANGED convVars
    /\ UNCHANGED <<files, idx, count, skipped, tracker>>

\* line 161 and the normal end of the process
Summary ==
    /\ pc = "loop"
    /\ idx > Len(files)
    /\ out' = out \o <<Line("Done", 0, <<count, skipped>>)>>
    /\ pc' = "done"
    /\ exitCode' = 0
    /\ UNCHANGED parserVars
    /\ UNCHANGED convVars
    /\ UNCHANGED issueVars

Next ==
    \/ GhMissing
    \/ GhRaises
    \/ DirMissing
    \/ Scan
    \/ SkipBacklog
    \/ ReadFails
    \/ NoTitle
    \/ DuplicateSkip
    \/ CreateIssue
    \/ CreateRaises
    \/ Summary

Spec == Init /\ [][Next]_vars

(***************************************************************************)
(* convert_md_to_docx.py: main, process_path, convert_file                 *)
(***************************************************************************)
InitConvert ==
    /\ ParserIdle
    /\ IssueIdle
    /\ pc = "cmain"
    /\ exitCode = -1
    /\ out = <<>>
    /\ paths \in ArgLists
    /\ pidx = 0
    /\ dirFiles \in SUBSET FileNames
    /\ converted \in {"absent", "dir", "blocked"}
    /\ md_files = <<>>
    /\ runs = <<>>

\* lines 9-19, 78: pandoc is not on the PATH
PandocMissing ==
    /\ pc = "cmain"
    /\ out' = out \o <<Line("Error: 'pandoc' is not installed", <<>>, "")>>
    /\ exitCode' = 1
    /\ pc' = "exit"
    /\ UNCHANGED parserVars
    /\ UNCHANGED issueVars
    /\ UNCHANGED convVars

\* lines 76-80: pandoc is found, the loop over args.paths starts
PandocFound ==
    /\ pc = "cmain"
    /\ pc' = "paths"
    /\ pidx' = 1
    /\ UNCHANGED parserVars
    /\ UNCHANGED issueVars
    /\ UNCHANGED <<exitCode, out, paths, dirFiles, converted, md_files, runs>>

AtPath == pc = "paths" /\ pidx \in 1..Len(paths)

\* os.path.isfile(path), os.path.isdir(path)
IsFile(a) == ~a.dir /\ a.name \in dirFiles
IsDir(a) == a.dir

\* lines 68-69
PathNotFound ==
    /\ AtPath
    /\ ~IsFile(paths[pidx])
    /\ ~IsDir(paths[pidx])
    /\ out' = out \o <<Line("Error: Path not found", paths[pidx].name, "")>>
    /\ pidx' = pidx + 1
    /\ UNCHANGED parserVars
    /\ UNCHANGED issueVars
    /\ UNCHANGED <<pc, exitCode, paths, dirFiles, converted, md_files, runs>>

\* lines 60-65: the directory is listed; convert_file is then called on each
\* listed name in turn
ScanDirectory ==
    /\ AtPath
    /\ IsDir(paths[pidx])
    /\ \E listing \in Orders({n \in dirFiles : GlobMatches(n)}) :
          /\ md_files' = listing
          /\ IF listing = <<>>
             THEN /\ out' = out \o <<Line("Scanning directory", <<>>, ""),
                                     Line("No .md files found", <<>>, "")>>
                  /\ pidx' = pidx + 1
                  /\ UNCHANGED pc
             ELSE /\ out' = out \o <<Line("Scanning directory", <<>>, "")>>
                  /\ pc' = "dir"
                  /\ UNCHANGED pidx
    /\ UNCHANGED parserVars
    /\ UNCHANGED issueVars
    /\ UNCHANGED <<exitCode, paths, dirFiles, converted, runs>>

\* the argument of the next call of convert_file: a file argument (line 59)
\* or the next name of the listing (line 67)
AtFile ==
    \/ AtPath /\ IsFile(paths[pidx])
    \/ pc = "dir" /\ md_files # <<>>

input_path == IF pc = "dir" THEN Head(md_files) ELSE paths[pidx].name

\* what follows the return of convert_file: the next listed name, or the
\* next path when the listing is exhausted
Return ==
    IF pc = "dir"
    THEN /\ md_files' = Tail(md_files)
         /\ IF Tail(md_files) = <<>>
            THEN pc' = "paths" /\ pidx' = pidx + 1
            ELSE UNCHANGED <<pc, pidx>>
    ELSE /\ pidx' = pidx + 1
         /\ UNCHANGED <<pc, md_files>>

\* lines 23-25
ConvertSkip ==
    /\ AtFile
    /\ ~IsMarkdown(input_path)
    /\ out' = out \o <<Line("Skipping: Not a markdown file", input_path, "")>>
    /\ Return
    /\ UNCHANGED parserVars
    /\ UNCHANGED issueVars
    /\ UNCHANGED <<exitCode, paths, dirFiles, converted, runs>>

\* lines 23-34: os.makedirs raises outside the try block; the traceback ends
\* the process
MakedirsRaises ==
    /\ AtFile
    /\ IsMarkdown(input_path)
    /\ converted = "blocked"
    /\ pc' = "raised"
    /\ exitCode' = 1
    /\ UNCHANGED out
    /\ UNCHANGED parserVars
    /\ UNCHANGED issueVars
    /\ UNCHANGED convVars

\* lines 23-54: the directory exists or is created, pandoc is run once
ConvertRun ==
    /\ AtFile
    /\ IsMarkdown(input_path)
    /\ converted # "blocked"
    /\ converted' = "dir"
    /\ \E o \in PandocOutcomes :
          /\ runs' = Append(runs, [input |-> input_path,
                                   output |-> OutputName(input_path),
                                   outcome |-> o])
          /\ out' = out \o <<Line("Converting", input_path, OutputName(input_path)),
                             IF o = "ok"
                             THEN Line("Success: Created", input_path, OutputName(input_path))
                             ELSE IF o = "CalledProcessError"
                             THEN Line("Error converting", input_path, o)
                             ELSE Line("Unexpected error", input_path, o)>>
    /\ Return
    /\ UNCHANGED parserVars
    /\ UNCHANGED issueVars
    /\ UNCHANGED <<exitCode, paths, dirFiles>>

\* line 81: the loop over the paths is over, the process ends normally
ConvertDone ==
    /\ pc = "paths"
    /\ pidx > Len(paths)
    /\ pc' = "done"
    /\ exitCode' = 0
    /\ UNCHANGED parserVars
    /\ UNCHANGED issueVars
    /\ UNCHANGED <<out, paths, pidx, dirFiles, converted, md_files, runs>>

NextConvert ==
    \/ PandocMissing
    \/ PandocFound
    \/ PathNotFound
    \/ ScanDirectory
    \/ ConvertSkip
    \/ MakedirsRaises
    \/ ConvertRun
    \/ ConvertDone

SpecConvert == InitConvert /\ [][NextConvert]_vars

(***************************************************************************)
(* Properties                                                              *)
(***************************************************************************)

\* the issue creator got past the checks of gh and of the directory
Scanned == idx >= 1
\* the process has ended
Ended == pc \in {"done", "raised", "exit"}

CallsFor(j) == {c \in 1..Len(cmds) : cmds[c].file = j}
HasLine(text, file) == \E n \in 1..Len(out) : out[n].text = text /\ out[n].file = file

\* the front matter of the j-th listed file
MetaOf(j) == parse_frontmatter(files[j].content).metadata
BodyOf(j) == parse_frontmatter(files[j].content).body

\* the j-th listed file is a document of the pipeline that can be read
IsDocument(j) == files[j].filename # BACKLOG_FILE /\ files[j].readable

\* C1: in every run in which gh is present and the directory is found, no
\* failure while handling one document ends the batch: every listed document
\* is gone through, the summary line is printed and the exit code is 0.
C1_NoFailureEndsTheBatch ==
    Scanned =>
        /\ pc # "raised"
        /\ pc = "done" =>
              /\ exitCode = 0
              /\ idx > Len(files)
              /\ out[Len(out)].text = "Done"

\* C2: once pandoc has been found, no failure while handling one file ends
\* the batch or changes the exit status: every path is gone through and the
\* exit code is 0.
C2_NoFailureEndsTheConversion ==
    pc \in {"paths", "dir", "done", "raised"} =>
        /\ pc # "raised"
        /\ pc = "done" => exitCode = 0 /\ pidx > Len(paths)

\* the value of skipped when the k-th iteration was over
SkippedAfter(k) == IF k < Len(trace) THEN trace[k + 1].skipped0 ELSE skipped

\* C3: a document whose title equals the title of an issue the tracker holds
\* when the document's turn comes, and whose duplicate query succeeds, gets
\* no creation call and adds exactly one to the skipped count.
C3_ExistingTitleIsSkipped ==
    \A k \in 1..Len(trace) :
        (trace[k].existed /\ trace[k].query = "ok") =>
            /\ CallsFor(trace[k].file) = {}
            /\ SkippedAfter(k) = trace[k].skipped0 + 1

\* the j-th file has a title that is a text and a bracketed list of labels
HasTitleAndLabelList(j) ==
    /\ IsDocument(j)
    /\ TitleKey \in DOMAIN MetaOf(j)
    /\ MetaOf(j)[TitleKey].kind = "str"
    /\ LabelsKey \in DOMAIN MetaOf(j)
    /\ MetaOf(j)[LabelsKey].kind = "list"

\* no issue had the title of the j-th file when its turn came (now, when its
\* turn never came)
NoIssueTitled(j) ==
    IF \E k \in 1..Len(trace) : trace[k].file = j
    THEN \A k \in 1..Len(trace) : trace[k].file = j => ~trace[k].existed
    ELSE ~BagIn(MetaOf(j)[TitleKey].val, tracker)

\* C4: every scanned document with a title t and a bracketed label list L,
\* no issue being titled t, gets exactly one creation call in the run, with
\* the title t, the trimmed body and the labels of L in order; no document
\* gets more than one call.
C4_EligibleDocumentSubmittedOnce ==
    /\ \A j \in 1..Len(files) : Cardinality(CallsFor(j)) <= 1
    /\ (Scanned /\ Ended) =>
          \A j \in 1..Len(files) :
              (HasTitleAndLabelList(j) /\ NoIssueTitled(j)) =>
                  \E c \in CallsFor(j) :
                      /\ cmds[c].cmd.title = MetaOf(j)[TitleKey]
                      /\ cmds[c].cmd.body = BodyOf(j)
                      /\ cmds[c].cmd.labels = MetaOf(j)[LabelsKey].val

\* C5: whenever the duplicate query fails, issue_exists answers "not found",
\* a warning naming the failure is printed, and the same iteration goes on to
\* the creation call for that document.
C5_DuplicateCheckFailsOpen ==
    \A k \in 1..Len(trace) :
        trace[k].query \in QueryErrors =>
            /\ ~trace[k].found
            /\ \E n \in 1..Len(out) :
                  /\ out[n].text = "Warning: Could not check if issue exists"
                  /\ out[n].file = trace[k].file
                  /\ out[n].arg = trace[k].query
            /\ Cardinality(CallsFor(trace[k].file)) = 1

\* a failed query was followed by the creation call
C5_Witness ==
    \E k \in 1..Len(trace) :
        /\ trace[k].query \in QueryErrors
        /\ ~trace[k].found
        /\ CallsFor(trace[k].file) # {}

\* C6: every scanned document without front matter, or whose front matter has
\* no title key, is skipped with the notice that no title was found and gets
\* no creation call.
C6_UntitledDocumentSkippedWithNotice ==
    (Scanned /\ Ended) =>
        \A j \in 1..Len(files) :
            (IsDocument(j) /\ TitleKey \notin DOMAIN MetaOf(j)) =>
                /\ HasLine("Skipping: No 'title' found", j)
                /\ CallsFor(j) = {}

RunsOf(n) == {r \in 1..Len(runs) : runs[r].input = n}

\* C7: given directory arguments only, the external converter is invoked
\* exactly once per argument for each file of the directory whose name ends
\* in .md compared case-insensitively, with <base name>.docx as output, and
\* every other file of the directory is reported as skipped (stated for the
\* runs that end normally).
C7_DirectoryConvertsMarkdownReportsOthers ==
    (pc = "done" /\ paths # <<>> /\ \A k \in 1..Len(paths) : paths[k].dir) =>
        \A n \in dirFiles :
            IF IsMarkdown(n)
            THEN /\ Cardinality(RunsOf(n)) = Len(paths)
                 /\ \A r \in RunsOf(n) : runs[r].output = OutputName(n)
            ELSE HasLine("Skipping: Not a markdown file", n)

\* the position of the line "---" that closes the block, by the stated
\* pattern: a "---" line, a block of lines, a line that is exactly "---",
\* the remaining text (possibly empty); 0 when the text has no such shape
RECURSIVE ClosingLine(_, _)
ClosingLine(text, from) ==
    IF from + 3 > Len(text) THEN 0
    ELSE IF /\ SubSeq(text, from, from + 3) = NL \o Marker
            /\ (from + 3 = Len(text) \/ text[from + 4] = "\n")
         THEN from
         ELSE ClosingLine(text, from + 1)

ClosingOf(text) == IF StartsWith(text, Marker \o NL) THEN ClosingLine(text, 5) ELSE 0

\* C8: a text of the stated shape is returned as the mapping of its block
\* and the trimmed remaining text; every other text as the empty mapping and
\* the text itself.
C8_FrontMatterDetectedByPattern ==
    result.returned =>
        LET k == ClosingOf(content)
        IN  IF k # 0
            THEN /\ result.metadata = ParseLines(EmptyMeta, Split(SubSeq(content, 5, k - 1), "\n"))
                 /\ result.body = Strip(SubSeq(content, k + 5, Len(content)))
            ELSE /\ result.metadata = EmptyMeta
                 /\ result.body = content

\* a text wrapped in one pair of matching quotes
WrappedInQuotes(s) == Len(s) >= 2 /\ s[1] = s[Len(s)] /\ s[1] \in {"\"", "'"}

Unquote(s) == IF WrappedInQuotes(s) THEN SubSeq(s, 2, Len(s) - 1) ELSE s

\* the stated interpretation of a trimmed value
StatedValue(value) ==
    IF Len(value) >= 2 /\ value[1] = "[" /\ value[Len(value)] = "]"
    THEN LET interior == SubSeq(value, 2, Len(value) - 1)
             pieces == Split(interior, ",")
         IN  [kind |-> "list",
              val |-> IF interior = <<>> THEN <<>>
                      ELSE [n \in 1..Len(pieces) |-> Unquote(Strip(pieces[n]))]]
    ELSE [kind |-> "str", val |-> Unquote(value)]

ValuePrefix == Marker \o NL \o <<"k", ":">>
ValueSuffix == NL \o Marker \o NL

\* the text is a block of the single line "k:<v>"
IsValueDoc(text) ==
    /\ Len(text) >= Len(ValuePrefix) + Len(ValueSuffix)
    /\ StartsWith(text, ValuePrefix)
    /\ EndsWith(text, ValueSuffix)
    /\ ~Contains(SubSeq(text, Len(ValuePrefix) + 1, Len(text) - Len(ValueSuffix)), NL)

ValueOf(text) == SubSeq(text, Len(ValuePrefix) + 1, Len(text) - Len(ValueSuffix))

\* C9: the value of a "key: value" line is a list when it starts with [ and
\* ends with ] (interior split on commas, pieces trimmed and unquoted once,
\* empty interior empty list), otherwise a text with one pair of matching
\* surrounding quotes removed when it is wrapped in one, and kept as it is in
\* every other case.
C9_ValueInterpretation ==
    (result.returned /\ IsValueDoc(content)) =>
        /\ <<"k">> \in DOMAIN result.metadata
        /\ result.metadata[<<"k">>] = StatedValue(Strip(ValueOf(content)))

\* C10: every label argument of a creation call is one complete label value
\* of the document: an item of the list, or the whole text of a scalar; a
\* document without a labels key gets no label argument.
C10_LabelArgumentsAreWholeLabels ==
    \A c \in 1..Len(cmds) :
        LET md == MetaOf(cmds[c].file)
            args == cmds[c].cmd.labels
        IN  IF LabelsKey \notin DOMAIN md THEN args = <<>>
            ELSE IF md[LabelsKey].kind = "list"
                 THEN \A n \in 1..Len(args) :
                          \E m \in 1..Len(md[LabelsKey].val) : args[n] = md[LabelsKey].val[m]
                 ELSE \A n \in 1..Len(args) : args[n] = md[LabelsKey].val

====
